---- MODULE Spec2Model ----
(***************************************************************************)
(* A model of rradio (src/src/main.rs): the FLTK command loop of main, the *)
(* catalog it keeps in all_stations, the cache file stations.json, the     *)
(* station browser and the VLC handles a PlayRequest acquires.             *)
(*                                                                         *)
(* Strings are sequences of one-character strings, so that str::contains   *)
(* is a real substring search.  An ApiStation is modelled by the three     *)
(* fields the modelled code reads: name, tags and url_resolved.            *)
(***************************************************************************)
EXTENDS Naturals, Sequences, FiniteSets

\* ------------------------------------------------------------- bounds

\* Longest name, tags and query string of the filter specification.
MaxStrLen == 2
\* Longest catalog of the filter specification.
MaxFilterLen == 2
\* Longest catalog the directory service returns.
MaxCatalog == 3
\* Most commands waiting in the channel when the user sends another.
MaxQueue == 3
\* The run's counters (directory calls, cache writes, VLC instances, live
\* handles at once) count up to this value and stay there.
CountCap == 2
\* Longest time a run lasts after its first PlayRequest, in units of 2^33
\* seconds.
MaxUptime == 1

\* ------------------------------------------------------------ strings

Alphabet == {"a", "A"}

\* All strings over Alphabet of length at most n.
Strs(n) == UNION {[1..k -> Alphabet] : k \in 0..n}

\* All sequences over S of length at most n.
SeqsUpTo(S, n) == UNION {[1..k -> S] : k \in 0..n}

Min(a, b) == IF a < b THEN a ELSE b

Max(a, b) == IF a < b THEN b ELSE a

\* A counter that stops at CountCap.
Bump(n) == Min(n + 1, CountCap)

\* str::contains(pat): pat occurs in s at some offset, compared byte for byte.
Contains(s, pat) ==
    \E i \in 0..Len(s) :
        /\ i + Len(pat) <= Len(s)
        /\ \A j \in 1..Len(pat) : s[i + j] = pat[j]

\* char::to_ascii_lowercase
LowerChar(c) == IF c = "A" THEN "a" ELSE c

\* str::to_ascii_lowercase
to_ascii_lowercase(s) == [i \in 1..Len(s) |-> LowerChar(s[i])]

\* ----------------------------------------------------------- stations

\* Option<T>: None, or Some(v).
None == [some |-> FALSE, v |-> <<>>]

Some(x) == [some |-> TRUE, v |-> x]

\* Result<Vec<ApiStation>, _> of the directory call.
Ok(x) == [ok |-> TRUE, v |-> x]

Err == [ok |-> FALSE, v |-> <<>>]

\* Result::unwrap_or
unwrap_or(r, default) == IF r.ok THEN r.v ELSE default

\* Option::unwrap_or
opt_unwrap_or(o, default) == IF o.some THEN o.v ELSE default

Station(n, t, u) == [name |-> n, tags |-> t, url_resolved |-> u]

\* The stations the directory service knows: one playable, one with an empty
\* resolved URL, one with an empty name.
StationPool ==
    { Station(<<"a">>, <<"A", "a">>, <<"a">>),
      Station(<<"A">>, <<>>, <<>>),
      Station(<<>>, <<"a">>, <<"A">>) }

\* Whether a sequence repeats no element.
Distinct(s) == \A i, j \in 1..Len(s) : i # j => s[i] # s[j]

\* What get_stations can answer: stations of the pool, each at most once.
Catalogs == {c \in SeqsUpTo(StationPool, MaxCatalog) : Distinct(c)}

\* fetch_stations: the directory's answer, or an error.
FetchResults == {Ok(c) : c \in Catalogs} \cup {Err}

\* format_station: the row text "name|tags" of a station, the name lower-cased
\* and replaced by the resolved URL when empty.  The state and country columns
\* are fields this model does not carry, and trim_start and trim_end change
\* nothing: Alphabet holds no white space.
format_station(station) ==
    to_ascii_lowercase(IF station.name = <<>> THEN station.url_resolved
                       ELSE station.name)
        \o <<"|">> \o station.tags

\* browser.add_with_data(text, station): a row with its station attached.
Row(station) == [text |-> format_station(station), data |-> <<station>>]

\* browser.add(text): a row without data.
TextRow(text) == [text |-> <<text>>, data |-> <<>>]

\* filter_stations with a slip: the closure looks at the name alone.
filter_stations_name_only(stations, filter) ==
    SelectSeq(stations, LAMBDA v : IF Len(filter) > 0
                                   THEN Contains(v.name, filter)
                                   ELSE TRUE)

\* filter_stations: keep, in order, the stations the closure accepts.
filter_stations(stations, filter) ==
    SelectSeq(stations, LAMBDA v : IF Len(filter) > 0
                                   THEN Contains(v.name, filter) \/ Contains(v.tags, filter)
                                   ELSE TRUE)

\* ---------------------------------------------------------- the cache

\* stations.json is absent, or holds a sequence of tokens: "[", one token for
\* each station object, "]".
Absent == [present |-> FALSE, bytes |-> <<>>]

File(bytes) == [present |-> TRUE, bytes |-> bytes]

Tok(kind, station) == [kind |-> kind, station |-> station]

Bracket(kind) == Tok(kind, Station(<<>>, <<>>, <<>>))

\* station_to_json: the station's fields as a JSON object, read back as an
\* ApiStation.
station_to_json(station) ==
    LET s == [name |-> station.name,
              url_resolved |-> station.url_resolved,
              tags |-> station.tags]
    IN  Station(s.name, s.tags, s.url_resolved)

\* serde_json::to_string of the vector: the array's text.
to_string(json_vec) ==
    <<Bracket("[")>> \o [i \in 1..Len(json_vec) |-> Tok("station", json_vec[i])]
                     \o <<Bracket("]")>>

\* Whether the tokens are one complete array.
WellFormed(bytes) ==
    /\ Len(bytes) >= 2
    /\ bytes[1] = Bracket("[")
    /\ bytes[Len(bytes)] = Bracket("]")
    /\ \A i \in 2..(Len(bytes) - 1) : bytes[i].kind = "station"

\* read_data_from_file_and_parse: the parsed array, or the parse error.
\* No handler calls it.
read_data_from_file_and_parse(file) ==
    IF WellFormed(file.bytes)
    THEN Ok([i \in 1..(Len(file.bytes) - 2) |-> file.bytes[i + 1].station])
    ELSE Err

\* is_cache_present: File::open succeeds.
is_cache_present(file) == file.present

\* How a write can end: completed; File::create fails; write_all fails after
\* `at` tokens; the process is killed after `at` tokens.
WriteFaults(data) ==
    {[kind |-> "none", at |-> Len(data)], [kind |-> "create", at |-> 0]}
        \cup {[kind |-> k, at |-> n] : k \in {"write", "kill"}, n \in 0..(Len(data) - 1)}

\* write_data_to_file: File::create truncates stations.json, write_all fills it.
\* The file afterwards, and how the process goes on.
write_data_to_file(file, data, fault) ==
    CASE fault.kind = "create" -> [file |-> file, app |-> "couldn't create"]
      [] fault.kind = "write" ->
            [file |-> File(SubSeq(data, 1, fault.at)), app |-> "couldn't write"]
      [] fault.kind = "kill" ->
            [file |-> File(SubSeq(data, 1, fault.at)), app |-> "killed"]
      [] OTHER -> [file |-> File(data), app |-> "running"]

\* ------------------------------------------------------------ browser

\* The browser widget: its rows and the selected line (0: none).
Browser(rows, selected) == [rows |-> rows, selected |-> selected]

\* browser.clear()
clear(browser) == Browser(<<>>, 0)

\* browser.add / add_with_data
add(browser, row) == Browser(Append(browser.rows, row), browser.selected)

\* The rows of a station list.
RowsOf(stations) == [i \in 1..Len(stations) |-> Row(stations[i])]

\* The rows of a station list, added one by one.
add_all(browser, stations) ==
    Browser(browser.rows \o RowsOf(stations), browser.selected)

\* fill_station_browser
fill_station_browser(browser, stations) ==
    IF stations.some
    THEN LET b1 == IF Len(stations.v) < 1
                   THEN add(browser, TextRow("Received 0 stations."))
                   ELSE browser
         IN  add_all(clear(b1), stations.v)
    ELSE browser

\* spawn_fetch_thread: block_on the directory call, send
\* StationsFetchedSuccess, store the stations and fill the browser.
spawn_fetch_thread(browser, tx, result) ==
    LET stations == unwrap_or(result, <<>>)
    IN  [channel |-> Append(tx, "StationsFetchedSuccess"),
         all_stations |-> Some(stations),
         browser |-> fill_station_browser(browser, Some(stations))]

\* The status line.
Status(kind, n, url) == [kind |-> kind, n |-> n, url |-> url]

\* The conditions of the load with a slip: both tests forgotten.
NeedsLoad_always(stations, file) == TRUE

\* The conditions of FilterStations' load: no catalog in memory and no cache
\* file.
NeedsLoad(stations, file) == ~stations.some /\ ~is_cache_present(file)

\* The rest of FilterStations: the status and the rows of the filtered list.
FilterView(browser, stations, query) ==
    LET filtered_stations == filter_stations(opt_unwrap_or(stations, <<>>), query)
    IN  [status |-> Status("Found", Len(filtered_stations), <<>>),
         browser |-> add_all(clear(browser), filtered_stations)]

\* ------------------------------------------------------------- engine

\* How the VLC calls of a PlayRequest can end: "ok", or the message of the
\* expect that fails.
EngineOutcomes ==
    {"ok", "Error initializing vlc instance", "Error initializing vlc media",
     "Error initializing vlc media player", "Error playing vlc media"}

\* The outcomes in which instance, media and player were all acquired.
Acquired(outcome) == outcome \in {"ok", "Error playing vlc media"}

\* Duration::from_secs(u64::MAX), the sleep of a player thread, in units of
\* 2^33 seconds: (2^64 - 1) \div 2^33.
SleepUnits == 2147483647

\* A player thread's sleep with a slip: a duration of zero.
SleepOver_at_once(slept) == slept >= 0

\* thread::sleep returns once the duration has passed.
SleepOver(slept) == slept >= SleepUnits

\* The player threads: how many were spawned (up to CountCap), how long the
\* first of them has slept, and how many messages they took from the channel.
Threads(n, slept, took) == [n |-> n, slept |-> slept, took |-> took]

\* thread::spawn in init_player: one more player thread.
spawn(threads) == Threads(Bump(threads.n), threads.slept, threads.took)

\* init_player with the player moved into the thread it spawns: the handle
\* outlives the call.
init_player_keeps_player(play_button, engines, threads) ==
    [play_button |-> "||", engines |-> engines, player_threads |-> spawn(threads)]

\* init_player: start the player, set the button's label, spawn the thread.
\* The thread's closure takes the receiver alone, so the player and the media,
\* the last handle of `engines`, are dropped on return.
init_player(play_button, engines, threads) ==
    [play_button |-> "||",
     engines |-> SubSeq(engines, 1, Len(engines) - 1),
     player_threads |-> spawn(threads)]

\* -------------------------------------------------------------- state

VARIABLES
    app,            \* "running", or how the process ended
    channel,        \* the messages sent and not yet received
    all_stations,   \* Option<Vec<ApiStation>>
    stations_json,  \* the file stations.json
    browser,        \* the station browser
    search_input,   \* the text of the search field
    status,         \* the status line
    play_button,    \* the label of the play button
    engines,        \* the resolved URLs of the live VLC players
    engines_peak,   \* most VLC players live at once in this run
    vlc_instances,  \* Instance::new calls of this run that succeeded
    fetch_calls,    \* directory calls of this run
    cache_writes,   \* write_data_to_file calls of this run
    fetched,        \* how this run's last directory call ended: "none" before it
    player_threads, \* the threads init_player spawned
    filter_call     \* the filter specification's call of filter_stations

vars ==
    << app, channel, all_stations, stations_json, browser, search_input, status,
       play_button, engines, engines_peak, vlc_instances, fetch_calls,
       cache_writes, fetched, player_threads, filter_call >>

memory ==
    << channel, all_stations, browser, search_input, status, play_button, engines,
       player_threads >>

counters == << engines_peak, vlc_instances, fetch_calls, cache_writes, fetched >>

\* What the user can type into the search field.
Queries == {<<>>, <<"a">>, <<"A">>}

NoCall == [stations |-> <<>>, filter |-> <<>>, result |-> None]

\* main, up to the loop: the widgets as built, no catalog.
Boot ==
    /\ app' = "running"
    /\ channel' = <<>>
    /\ all_stations' = None
    /\ browser' = add(Browser(<<>>, 0), TextRow("no stations to display"))
    /\ search_input' = <<>>
    /\ status' = Status("", 0, <<>>)
    /\ play_button' = ">"
    /\ engines' = <<>>
    /\ player_threads' = Threads(0, 0, 0)

InitProgram ==
    /\ app = "running"
    /\ channel = <<>>
    /\ all_stations = None
    /\ stations_json = Absent
    /\ browser = add(Browser(<<>>, 0), TextRow("no stations to display"))
    /\ search_input = <<>>
    /\ status = Status("", 0, <<>>)
    /\ play_button = ">"
    /\ engines = <<>>
    /\ player_threads = Threads(0, 0, 0)
    /\ engines_peak = 0
    /\ vlc_instances = 0
    /\ fetch_calls = 0
    /\ cache_writes = 0
    /\ fetched = "none"

Init == InitProgram /\ filter_call = NoCall

\* The process ends (a panic, a kill, the window closed): its memory is gone.
Halt(reason) ==
    /\ app' = reason
    /\ channel' = <<>>
    /\ all_stations' = None
    /\ browser' = Browser(<<>>, 0)
    /\ search_input' = <<>>
    /\ status' = Status("", 0, <<>>)
    /\ play_button' = ">"
    /\ engines' = <<>>
    /\ player_threads' = Threads(0, 0, 0)

\* rx_message.recv() returns msg.
Receives(msg) == app = "running" /\ channel # <<>> /\ Head(channel) = msg

\* The step in which the loop takes msg from the channel and runs its arm of
\* the match (not a step of the user, who only appends or closes the window).
Takes(msg) ==
    /\ Receives(msg)
    /\ app' # "closed"
    /\ channel' # channel
    /\ Len(channel') <= Len(channel)

\* tx_message.send(msg) from a widget callback.
Send(msg) ==
    /\ app = "running"
    /\ Len(channel) < MaxQueue
    /\ channel' = Append(channel, msg)

\* ----------------------------------------------------------- handlers

\* Message::FilterStations.
HandleFilterStations ==
    /\ Receives("FilterStations")
    /\ UNCHANGED << engines_peak, vlc_instances, filter_call >>
    /\ IF NeedsLoad(all_stations, stations_json)
       THEN \E result \in FetchResults :
              LET f == spawn_fetch_thread(browser, Tail(channel), result)
                  json_vec == [i \in 1..Len(f.all_stations.v) |->
                                  station_to_json(f.all_stations.v[i])]
                  data == to_string(json_vec)
              IN  \E fault \in WriteFaults(data) :
                    LET w == write_data_to_file(stations_json, data, fault)
                        b == fill_station_browser(f.browser, f.all_stations)
                        view == FilterView(b, f.all_stations, search_input)
                    IN  /\ fetch_calls' = Bump(fetch_calls)
                        /\ fetched' = IF result.ok THEN "ok" ELSE "err"
                        /\ cache_writes' = Bump(cache_writes)
                        /\ stations_json' = w.file
                        /\ IF w.app # "running"
                           THEN Halt(w.app)
                           ELSE /\ channel' = f.channel
                                /\ all_stations' = f.all_stations
                                /\ status' = view.status
                                /\ browser' = view.browser
                                /\ UNCHANGED << app, search_input, play_button, engines,
                                                player_threads >>
       ELSE LET view == FilterView(browser, all_stations, search_input)
            IN  /\ channel' = Tail(channel)
                /\ status' = view.status
                /\ browser' = view.browser
                /\ UNCHANGED << app, all_stations, stations_json, search_input,
                                play_button, engines, player_threads, fetch_calls,
                                cache_writes, fetched >>

\* Message::StationsFetchedSuccess.
HandleStationsFetchedSuccess ==
    /\ Receives("StationsFetchedSuccess")
    /\ channel' = Tail(channel)
    /\ browser' = fill_station_browser(browser, all_stations)
    /\ UNCHANGED << app, all_stations, stations_json, search_input, status,
                    play_button, engines, player_threads, counters, filter_call >>

\* Message::PlayRequest.
HandlePlayRequest ==
    /\ Receives("PlayRequest")
    /\ UNCHANGED << stations_json, fetch_calls, cache_writes, fetched, filter_call >>
    /\ IF browser.selected = 0
       THEN Halt("Couldn't get selected station")
            /\ UNCHANGED << engines_peak, vlc_instances >>
       ELSE IF browser.rows[browser.selected].data = <<>>
       THEN Halt("")
            /\ UNCHANGED << engines_peak, vlc_instances >>
       ELSE \E outcome \in EngineOutcomes :
              LET station == browser.rows[browser.selected].data[1]
                  acquired == Append(engines, station.url_resolved)
                  p == init_player(play_button, acquired, player_threads)
              IN  /\ vlc_instances' = IF outcome = "Error initializing vlc instance"
                                      THEN vlc_instances
                                      ELSE Bump(vlc_instances)
                  /\ engines_peak' = IF Acquired(outcome)
                                     THEN Max(engines_peak, Min(Len(acquired), CountCap))
                                     ELSE engines_peak
                  /\ IF outcome # "ok"
                     THEN Halt(outcome)
                     ELSE /\ channel' = Tail(channel)
                          /\ status' = Status("Playing", 0, station.url_resolved)
                          /\ play_button' = p.play_button
                          /\ engines' = p.engines
                          /\ player_threads' = p.player_threads
                          /\ UNCHANGED << app, all_stations, browser, search_input >>

\* Message::PauseRequest.
HandlePauseRequest ==
    /\ Receives("PauseRequest")
    /\ channel' = Tail(channel)
    /\ status' = Status("Playback stopped.", 0, <<>>)
    /\ play_button' = ">"
    /\ UNCHANGED << app, all_stations, stations_json, browser, search_input,
                    engines, player_threads, counters, filter_call >>

\* ------------------------------------------------------------ the user

\* The user edits the search field.
TypeSearch ==
    /\ app = "running"
    /\ \E q \in Queries \ {search_input} : search_input' = q
    /\ UNCHANGED << app, channel, all_stations, stations_json, browser, status,
                    play_button, engines, player_threads, counters, filter_call >>

\* Enter in the search field, or the Search button: both emit FilterStations.
SubmitSearch ==
    /\ Send("FilterStations")
    /\ UNCHANGED << app, all_stations, stations_json, browser, search_input,
                    status, play_button, engines, player_threads, counters,
                    filter_call >>

\* A click on a row of the browser selects it and emits PlayRequest.
ClickRow ==
    /\ \E i \in 1..Len(browser.rows) : browser' = Browser(browser.rows, i)
    /\ Send("PlayRequest")
    /\ UNCHANGED << app, all_stations, stations_json, search_input, status,
                    play_button, engines, player_threads, counters, filter_call >>

\* The play button's callback sends PauseRequest.
ClickPlayButton ==
    /\ Send("PauseRequest")
    /\ UNCHANGED << app, all_stations, stations_json, browser, search_input,
                    status, play_button, engines, player_threads, counters,
                    filter_call >>

\* The window is closed: app.wait() returns false and main returns.
CloseWindow ==
    /\ app = "running"
    /\ Halt("closed")
    /\ UNCHANGED << stations_json, counters, filter_call >>

\* The program is started again; stations.json is what the last run left.
Restart ==
    /\ app # "running"
    /\ Boot
    /\ engines_peak' = 0
    /\ vlc_instances' = 0
    /\ fetch_calls' = 0
    /\ cache_writes' = 0
    /\ fetched' = "none"
    /\ UNCHANGED << stations_json, filter_call >>

Next ==
    \/ HandleFilterStations
    \/ HandleStationsFetchedSuccess
    \/ HandlePlayRequest
    \/ HandlePauseRequest
    \/ TypeSearch
    \/ SubmitSearch
    \/ ClickRow
    \/ ClickPlayButton
    \/ CloseWindow
    \/ Restart

Spec == Init /\ [][Next]_vars

\* ------------------------------------------ the refresh specification

\* Message::FetchStations.
HandleFetchStations ==
    /\ Receives("FetchStations")
    /\ \E result \in FetchResults :
         LET f == spawn_fetch_thread(browser, Tail(channel), result)
         IN  /\ channel' = f.channel
             /\ all_stations' = f.all_stations
             /\ browser' = f.browser
             /\ status' = IF f.all_stations.some
                          THEN Status("Successfully fetched", Len(f.all_stations.v), <<>>)
                          ELSE status
             /\ fetch_calls' = Bump(fetch_calls)
             /\ fetched' = IF result.ok THEN "ok" ELSE "err"
    /\ UNCHANGED << app, stations_json, search_input, play_button, engines,
                    player_threads, engines_peak, vlc_instances, cache_writes,
                    filter_call >>

\* A refresh request reaches the channel.  No widget of main.rs sends
\* Message::FetchStations; this is the RequestFetch command of the design.
SendFetchStations ==
    /\ Send("FetchStations")
    /\ UNCHANGED << app, all_stations, stations_json, browser, search_input,
                    status, play_button, engines, player_threads, counters,
                    filter_call >>

\* The commands of the catalog: refresh, search and their completions, over
\* runs of the program.
NextRefresh ==
    \/ SendFetchStations
    \/ HandleFetchStations
    \/ SubmitSearch
    \/ HandleFilterStations
    \/ HandleStationsFetchedSuccess
    \/ CloseWindow
    \/ Restart

SpecRefresh == Init /\ [][NextRefresh]_vars

\* ------------------------------------------- the threads specification

\* A player thread, the first one spawned: it sleeps, and once the sleep is
\* over it calls rx_mediastate.recv() and prints what it got.
PlayerThread ==
    /\ app = "running"
    /\ player_threads.n > 0
    /\ IF SleepOver(player_threads.slept)
       THEN IF channel # <<>>
            THEN /\ channel' = Tail(channel)
                 /\ player_threads' = Threads(player_threads.n, player_threads.slept,
                                              Bump(player_threads.took))
            ELSE UNCHANGED << channel, player_threads >>
       ELSE /\ player_threads' = Threads(player_threads.n,
                                         Min(player_threads.slept + 1, MaxUptime),
                                         player_threads.took)
            /\ UNCHANGED channel
    /\ UNCHANGED << app, all_stations, stations_json, browser, search_input,
                    status, play_button, engines, counters, filter_call >>

NextThreads ==
    \/ Next
    \/ PlayerThread

SpecThreads == Init /\ [][NextThreads]_vars

\* ------------------------------------------- the filter specification

\* The stations filter_stations is called on: a name alone, tags alone, or a
\* one-letter name with one-letter tags.
FilterUniverse ==
    {Station(n, <<>>, <<>>) : n \in Strs(MaxStrLen)}
        \cup {Station(<<>>, t, <<>>) : t \in Strs(MaxStrLen)}
        \cup {Station(<<c>>, <<d>>, <<>>) : c \in Alphabet, d \in Alphabet}

\* filter_stations is about to be called on any catalog and any query.
InitFilter ==
    /\ InitProgram
    /\ \E stations \in SeqsUpTo(FilterUniverse, MaxFilterLen) :
         \E filter \in Strs(MaxStrLen) :
            filter_call = [stations |-> stations, filter |-> filter, result |-> None]

\* The call returns.
CallFilter ==
    /\ ~filter_call.result.some
    /\ filter_call' =
          [filter_call EXCEPT
              !.result = Some(filter_stations(filter_call.stations, filter_call.filter))]
    /\ UNCHANGED << app, memory, stations_json, counters >>

NextFilter == CallFilter

SpecFilter == InitFilter /\ [][NextFilter]_vars

\* ============================================================== claims

\* s[i..j] read as a string of its own.
Slice(s, i, j) == [k \in 1..(j - i + 1) |-> s[i + k - 1]]

\* q is a substring of s: some slice of s is q.
IsSubstring(s, q) == \E i \in 1..(Len(s) + 1) : \E j \in (i - 1)..Len(s) : Slice(s, i, j) = q

\* The positions of catalog c whose station has q in its name or in its tags.
Matching(c, q) == {i \in 1..Len(c) : IsSubstring(c[i].name, q) \/ IsSubstring(c[i].tags, q)}

\* The k-th smallest member of a set of positions.
Nth(P, k) == CHOOSE i \in P : Cardinality({j \in P : j <= i}) = k

\* C1: filter_stations returns exactly the stations of the catalog whose name or
\* tags contain the query as a case-sensitive substring, in the catalog's order,
\* none dropped and none twice; for the empty query it returns the catalog.
C1_FilterIsMatchingSubsequence ==
    filter_call.result.some =>
        LET c == filter_call.stations
            q == filter_call.filter
            r == filter_call.result.v
            P == Matching(c, q)
        IN  /\ Len(r) = Cardinality(P)
            /\ \A k \in 1..Len(r) : r[k] = c[Nth(P, k)]
            /\ q = <<>> => r = c

\* C1's case: a call with a non-empty query that keeps the second of two
\* stations for its tags alone and drops the first.
C1_Witness ==
    /\ filter_call.result.some
    /\ filter_call.filter # <<>>
    /\ Len(filter_call.stations) = 2
    /\ filter_call.result.v = <<filter_call.stations[2]>>
    /\ ~IsSubstring(filter_call.stations[2].name, filter_call.filter)
    /\ filter_call.stations[1] # filter_call.stations[2]

\* How often msg waits in a channel.
Count(ch, msg) == Cardinality({i \in 1..Len(ch) : ch[i] = msg})

\* The stations of a complete cache record.
Cached(file) == read_data_from_file_and_parse(file).v

\* The station of the selected row; defined when HasStation holds.
Selected == browser.rows[browser.selected].data[1]

\* A row is selected and carries a station.
HasStation ==
    /\ browser.selected # 0
    /\ browser.rows[browser.selected].data # <<>>

\* C2: in a run that finds a complete cache record of 3 stations and has no
\* catalog in memory, the first FilterStations with an empty query loads the
\* catalog from the cache and lists the same 3 stations.
C2_RestartLoadsFromCache ==
    [][ ( /\ Takes("FilterStations")
          /\ search_input = <<>>
          /\ ~all_stations.some
          /\ is_cache_present(stations_json)
          /\ WellFormed(stations_json.bytes)
          /\ Len(Cached(stations_json)) = 3 )
        => ( /\ all_stations' = Some(Cached(stations_json))
             /\ browser'.rows = RowsOf(Cached(stations_json)) ) ]_vars

\* C3: in one run the directory service is called at most once and
\* write_data_to_file is called at most once, whatever commands are sent.
C3_AtMostOneFetchAndWrite == fetch_calls <= 1 /\ cache_writes <= 1

\* C3's case: a run that began without a cache, loaded once, and has since
\* processed StationsFetchedSuccess and a further FilterStations (the browser
\* lists fewer rows than the catalog holds).
C3_Witness ==
    /\ app = "running"
    /\ fetch_calls = 1
    /\ cache_writes = 1
    /\ all_stations.some
    /\ Count(channel, "StationsFetchedSuccess") = 0
    /\ Len(browser.rows) < Len(all_stations.v)

\* C4: the catalog fetched from the directory is applied to all_stations only
\* by the step that receives the completion message StationsFetchedSuccess.
C4_CatalogAppliedOnCompletion ==
    [][ (app = "running" /\ app' = "running" /\ all_stations' # all_stations)
        => Head(channel) = "StationsFetchedSuccess" ]_vars

\* C5: no two VLC players are live at once, during a PlayRequest or after it.
C5_OneEngineAtATime == engines_peak <= 1 /\ Len(engines) <= 1

\* C5's case: a second PlayRequest has acquired its instance and player.
C5_Witness == app = "running" /\ vlc_instances >= 2 /\ engines_peak = 1

\* C6: while the play button shows "||" a live player for the station of the
\* status line exists.
C6_PlayingHasLiveEngine ==
    (app = "running" /\ play_button = "||")
        => (engines # <<>> /\
            (status.kind = "Playing" => engines[Len(engines)] = status.url))

\* C7: a PlayRequest for a station with an empty resolved URL acquires no VLC
\* instance or player, leaves the play button as it was, keeps the loop
\* running and reports Unplayable.
C7_UnplayableRejected ==
    [][ (Takes("PlayRequest") /\ HasStation /\ Selected.url_resolved = <<>>)
        => ( /\ app' = "running"
             /\ vlc_instances' = vlc_instances
             /\ engines_peak' = engines_peak
             /\ play_button' = play_button
             /\ status'.kind = "Unplayable" ) ]_vars

\* C8: a failure of a VLC call during PlayRequest never ends the loop.
C8_EngineFailureKeepsLoop == app \notin (EngineOutcomes \ {"ok"})

\* C9: a failed directory call sends no StationsFetchedSuccess and leaves a
\* failure message, not a station count, in the status line.
C9_FetchFailureSurfaced ==
    [][ (fetch_calls' # fetch_calls /\ fetched' = "err" /\ app' = "running")
        => ( /\ Count(channel', "StationsFetchedSuccess")
                  <= Count(channel, "StationsFetchedSuccess")
             /\ status'.kind = "FetchFailed" ) ]_vars

\* C10: whenever is_cache_present answers true, stations.json holds a complete
\* record, also after a crash in the middle of write_data_to_file.
C10_PresentCacheIsComplete ==
    is_cache_present(stations_json) => WellFormed(stations_json.bytes)

\* C11: every command the loop receives is answered in the UI: unless the
\* window is closed or the process is killed from outside, the handler runs to
\* its end and the loop goes on to show the result.
C11_EveryCommandAnswered ==
    [][ (channel # <<>> /\ Takes(Head(channel)))
        => app' \in {"running", "killed"} ]_vars

\* C12: after FetchStations is processed stations.json holds a complete record
\* and its stations are the catalog in memory.
C12_RefreshRewritesCache ==
    [][ (Takes("FetchStations") /\ app' = "running")
        => ( /\ all_stations'.some
             /\ is_cache_present(stations_json')
             /\ WellFormed(stations_json'.bytes)
             /\ Cached(stations_json') = all_stations'.v ) ]_vars

\* C13: whenever the loop is running, the queue is empty and the status line
\* reports "Found: n", the rows of the browser are filter_stations of the
\* catalog for one of the queries and there are n of them: a
\* StationsFetchedSuccess left by an earlier load changes nothing.
C13_StaleCompletionDiscarded ==
    (app = "running" /\ channel = <<>> /\ status.kind = "Found")
        => \E q \in Queries :
             /\ browser.rows = RowsOf(filter_stations(opt_unwrap_or(all_stations, <<>>), q))
             /\ status.n = Len(browser.rows)

C15_PauseWhenNotPlayingIsNoOp ==
    [][ (Takes("PauseRequest") /\ play_button # "||")
        => (play_button' = play_button /\ status' = status) ]_vars

\* C16: after a station was played and paused, the next press of the play
\* button resumes it: the play button shows "||" again.
C16_ResumeAfterPause ==
    [][ ( /\ Takes("PauseRequest")
          /\ vlc_instances >= 1
          /\ play_button = ">"
          /\ status.kind = "Playback stopped." )
        => play_button' = "||" ]_vars

\* C17: no row of the browser carries a station whose resolved URL is empty.
C17_NoEmptyUrlOffered ==
    app = "running"
        => \A i \in 1..Len(browser.rows) :
             browser.rows[i].data # <<>>
                 => browser.rows[i].data[1].url_resolved # <<>>

C19_CacheWrittenOnlyOnSuccess ==
    [][ stations_json' # stations_json => fetched' = "ok" ]_vars

\* C20: a PlayRequest received while no row is selected, or while the selected
\* row carries no station, leaves the loop running.
C20_PlayWithoutStationKeepsLoop ==
    [][ (Takes("PlayRequest") /\ ~HasStation) => app' = "running" ]_vars

====
